---------------------------- MODULE Spec2Model ----------------------------
(***************************************************************************)
(* A model of the Utils class of openeo-js-processlib (src/src/utils.js,   *)
(* and its older copy src/unnamed/part_002).  Utils is a namespace of      *)
(* stateless static functions, so every specification below draws the      *)
(* arguments of one call in its initial state and its actions apply the    *)
(* functions to them (and, for the idempotence properties, to the value    *)
(* the previous call returned).                                            *)
(*                                                                         *)
(* JavaScript strings are sequences of one-character strings.  JavaScript  *)
(* values are records with one shape (see V below) so that values of       *)
(* different types can be compared.                                        *)
(***************************************************************************)
EXTENDS Integers, Sequences, FiniteSets, TLC

VARIABLES
    fn,     \* the function the caller invokes
    args,   \* the arguments of the call, a record
    ret,    \* what the last call returned (or the error it threw)
    prev,   \* what the call before the last one returned
    calls,  \* number of calls made so far
    heap    \* the objects in memory: a sequence, object k lives at address k

vars == <<fn, args, ret, prev, calls, heap>>

-----------------------------------------------------------------------------
(* Bounds of the model.                                                    *)

MaxUrlLen == 4
MaxPathLen == 2
MaxTokenLen == 4
MaxLinks == 2
MaxMessageParts == 4
MaxNum == 2
MaxScalarLen == 2
MaxUniqueLen == 3
MaxHostLen == 2
MaxSortLinks == 3
MaxSnakeLen == 5

-----------------------------------------------------------------------------
(* Characters and strings.                                                 *)

LowerLetters ==
    << "a", "b", "c", "d", "e", "f", "g", "h", "i", "j", "k", "l", "m",
       "n", "o", "p", "q", "r", "s", "t", "u", "v", "w", "x", "y", "z" >>

UpperLetters ==
    << "A", "B", "C", "D", "E", "F", "G", "H", "I", "J", "K", "L", "M",
       "N", "O", "P", "Q", "R", "S", "T", "U", "V", "W", "X", "Y", "Z" >>

Digits == << "0", "1", "2", "3", "4", "5", "6", "7", "8", "9" >>

Range(f) == { f[i] : i \in DOMAIN f }

IndexIn(seq, c) == CHOOSE i \in DOMAIN seq : seq[i] = c

IsLower(c) == c \in Range(LowerLetters)
IsUpper(c) == c \in Range(UpperLetters)
IsDigit(c) == c \in Range(Digits)
IsAlnum(c) == IsLower(c) \/ IsUpper(c) \/ IsDigit(c)

\* String.prototype.toUpperCase / toLowerCase on one character.
UpperChar(c) == IF IsLower(c) THEN UpperLetters[IndexIn(LowerLetters, c)] ELSE c
LowerChar(c) == IF IsUpper(c) THEN LowerLetters[IndexIn(UpperLetters, c)] ELSE c

toUpperCase(s) == [i \in 1..Len(s) |-> UpperChar(s[i])]
toLowerCase(s) == [i \in 1..Len(s) |-> LowerChar(s[i])]

\* All strings over alphabet A of length at most n.
StringsUpTo(A, n) == UNION { [1..k -> A] : k \in 0..n }

\* The characters i..j of s (positions from 1), clipped to the string.
Slice(s, i, j) ==
    LET lo == IF i < 1 THEN 1 ELSE i
        hi == IF j > Len(s) THEN Len(s) ELSE j
    IN [k \in 1..(hi - lo + 1) |-> s[lo + k - 1]]

Last(s) == s[Len(s)]
Front(s) == Slice(s, 1, Len(s) - 1)

\* s.substr(from) with from counted from 1.
From(s, i) == Slice(s, i, Len(s))

EndsWith(s, t) ==
    /\ Len(t) <= Len(s)
    /\ Slice(s, Len(s) - Len(t) + 1, Len(s)) = t

StartsWithAt(s, i, t) ==
    /\ i >= 1
    /\ i + Len(t) - 1 <= Len(s)
    /\ Slice(s, i, i + Len(t) - 1) = t

-----------------------------------------------------------------------------
(* JavaScript values.  t is the type tag; s the characters of a string;    *)
(* n the magnitude of a number; b a boolean; e the elements of an array    *)
(* (or the keys of an object).  A thrown error is a value with its own     *)
(* tag, so that a call's outcome is one value.                             *)

V(t, s, n, b, e) == [t |-> t, s |-> s, n |-> n, b |-> b, e |-> e]

Str(s) == V("string", s, 0, FALSE, <<>>)
Num(n) == V("number", <<>>, n, FALSE, <<>>)
Bool(b) == V("boolean", <<>>, 0, b, <<>>)
Arr(e) == V("array", <<>>, 0, FALSE, e)
Null == V("null", <<>>, 0, FALSE, <<>>)
Undefined == V("undefined", <<>>, 0, FALSE, <<>>)
TypeError == V("TypeError", <<>>, 0, FALSE, <<>>)

IsString(v) == v.t = "string"
IsError(v) == v.t = "TypeError"

-----------------------------------------------------------------------------
(* Utils.normalizeUrl                                                      *)

\* Mutant: /\/+$/ would remove every slash at the end.
RemoveAllTrailingSlashes(s) ==
    LET keep == { k \in 0..Len(s) : \A i \in (k + 1)..Len(s) : s[i] = "/" }
        k == CHOOSE j \in keep : \A m \in keep : j <= m
    IN Slice(s, 1, k)

\* str.replace(/\/$/, ""): removes one slash at the end of the string.
RemoveTrailingSlash(s) ==
    IF Len(s) > 0 /\ Last(s) = "/" THEN Front(s) ELSE s

normalizeUrl(baseUrl, path) ==
    IF ~IsString(baseUrl)
    THEN TypeError      \* baseUrl.replace is not a function
    ELSE LET url == RemoveTrailingSlash(baseUrl.s)
         IN IF IsString(path)
            THEN LET p == IF Slice(path.s, 1, 1) # <<"/">>
                          THEN <<"/">> \o path.s
                          ELSE path.s
                 IN Str(url \o RemoveTrailingSlash(p))
            ELSE Str(url)

-----------------------------------------------------------------------------
(* String(v): the string form of a scalar value.                           *)

RECURSIVE NumToString(_)
NumToString(n) ==
    IF n < 10 THEN <<Digits[n + 1]>>
    ELSE NumToString(n \div 10) \o <<Digits[(n % 10) + 1]>>

StringOf(v) ==
    CASE v.t = "string" -> v.s
      [] v.t = "number" -> NumToString(v.n)
      [] v.t = "boolean" -> IF v.b THEN <<"t", "r", "u", "e">>
                                   ELSE <<"f", "a", "l", "s", "e">>
      [] v.t = "null" -> <<"n", "u", "l", "l">>
      [] OTHER -> <<"u", "n", "d", "e", "f", "i", "n", "e", "d">>

Includes(s, c) == \E i \in 1..Len(s) : s[i] = c

-----------------------------------------------------------------------------
(* Utils.prettifyString, src/src/utils.js                                  *)

\* Mutant: the replacer without toUpperCase().
replacerPlain(a, b) == <<a, " ", b>>

\* const replacer = (_,a,b) => a + ' ' + b.toUpperCase();
replacer(a, b) == <<a, " ", UpperChar(b)>>

\* The replacement string '$1 $2' of the older copy.
Dollar1SpaceDollar2(a, b) == <<a, " ", b>>

Replacement(a, b, upper) ==
    IF upper THEN replacer(a, b) ELSE Dollar1SpaceDollar2(a, b)

\* str.replace(/([a-zA-Z\d])<sep>([a-zA-Z\d])/g, ...): the matches are found
\* from left to right and do not overlap; i is the position the scan is at.
RECURSIVE ReplaceSeparated(_, _, _, _)
ReplaceSeparated(s, i, sep, upper) ==
    IF i > Len(s) THEN <<>>
    ELSE IF /\ i + 2 <= Len(s)
            /\ IsAlnum(s[i])
            /\ s[i + 1] = sep
            /\ IsAlnum(s[i + 2])
         THEN Replacement(s[i], s[i + 2], upper)
                  \o ReplaceSeparated(s, i + 3, sep, upper)
         ELSE <<s[i]>> \o ReplaceSeparated(s, i + 1, sep, upper)

\* str.replace(/([a-z])([A-Z])/g, ...)
RECURSIVE ReplaceCamel(_, _, _)
ReplaceCamel(s, i, upper) ==
    IF i > Len(s) THEN <<>>
    ELSE IF i + 1 <= Len(s) /\ IsLower(s[i]) /\ IsUpper(s[i + 1])
         THEN Replacement(s[i], s[i + 1], upper) \o ReplaceCamel(s, i + 2, upper)
         ELSE <<s[i]>> \o ReplaceCamel(s, i + 1, upper)

\* The three converters, chosen by the separator the string contains.
ConvertCase(s, upper) ==
    IF Includes(s, "_") THEN ReplaceSeparated(s, 1, "_", upper)
    ELSE IF Includes(s, "-") THEN ReplaceSeparated(s, 1, "-", upper)
    ELSE ReplaceCamel(s, 1, upper)

\* str.charAt(0).toUpperCase() + str.substr(1)
UpperFirst(s) ==
    IF Len(s) = 0 THEN s ELSE <<UpperChar(s[1])>> \o From(s, 2)

PrettyMinLength == 3

\* The function mapped over the strings (utils.js lines 248-267).
PrettifyOne(str) ==
    IF Len(str) >= PrettyMinLength THEN UpperFirst(ConvertCase(str, TRUE)) ELSE str

RECURSIVE Join(_, _)
Join(strs, sep) ==
    IF Len(strs) = 0 THEN <<>>
    ELSE IF Len(strs) = 1 THEN strs[1]
    ELSE strs[1] \o sep \o Join(Tail(strs), sep)

DefaultArraySep == <<";", " ">>

\* strings.map(...).join(arraySep)
PrettifyAll(strs, arraySep) ==
    Str(Join([i \in 1..Len(strs) |-> PrettifyOne(strs[i])], arraySep))

\* Mutant: strings = [strings], without String(): a number or a boolean has
\* no length and is joined as it is, null has no properties.
prettifyStringUncoerced(strings, arraySep) ==
    IF strings.t = "array"
    THEN PrettifyAll([i \in 1..Len(strings.e) |-> strings.e[i].s], arraySep)
    ELSE IF strings.t = "string" THEN PrettifyAll(<<strings.s>>, arraySep)
    ELSE IF strings.t \in {"null", "undefined"} THEN TypeError
    ELSE Str(StringOf(strings))

\* strings is a scalar value, or an array of strings.
prettifyString(strings, arraySep) ==
    IF strings.t = "array"
    THEN PrettifyAll([i \in 1..Len(strings.e) |-> strings.e[i].s], arraySep)
    ELSE PrettifyAll(<<StringOf(strings)>>, arraySep)

-----------------------------------------------------------------------------
(* Utils.isNumeric: !isNaN(parseFloat(n)) && isFinite(n)                   *)

DigitVal(c) == IndexIn(Digits, c) - 1

\* The first position from i on that holds no character of the set cs.
RECURSIVE SkipChars(_, _, _)
SkipChars(s, i, cs) ==
    IF i <= Len(s) /\ s[i] \in cs THEN SkipChars(s, i + 1, cs) ELSE i

SkipDigits(s, i) == SkipChars(s, i, Range(Digits))

TrimLeft(s) == From(s, SkipChars(s, 1, {" "}))

RECURSIVE TrimRight(_)
TrimRight(s) ==
    IF Len(s) > 0 /\ Last(s) = " " THEN TrimRight(Front(s)) ELSE s

InfinityWord == <<"I", "n", "f", "i", "n", "i", "t", "y">>

\* parseFloat(s) is not NaN: after leading blanks and an optional sign the
\* string starts with a digit, with '.' and a digit, or with Infinity.
ParseFloatIsNumber(s) ==
    LET t == TrimLeft(s)
        i == IF Len(t) > 0 /\ t[1] \in {"+", "-"} THEN 2 ELSE 1
    IN \/ i <= Len(t) /\ IsDigit(t[i])
       \/ i + 1 <= Len(t) /\ t[i] = "." /\ IsDigit(t[i + 1])
       \/ StartsWithAt(t, i, InfinityWord)

RECURSIVE DigitsToNat(_)
DigitsToNat(s) ==
    IF Len(s) = 0 THEN 0 ELSE 10 * DigitsToNat(Front(s)) + DigitVal(Last(s))

\* The decimal digits of 2^1024 - 2^970, from which on a value rounds to
\* Infinity: 1.7976931...e308.
MaxDoubleExponent == 308
MaxDoubleDigits == <<1, 7, 9, 7, 6, 9, 3, 1>>

\* Whether the digits d (after leading zeros, padded with zeros) come before
\* or at MaxDoubleDigits.
RECURSIVE DigitsAtMost(_, _)
DigitsAtMost(d, m) ==
    IF Len(m) = 0 THEN TRUE
    ELSE LET x == IF Len(d) = 0 THEN 0 ELSE DigitVal(d[1])
         IN IF x < m[1] THEN TRUE
            ELSE IF x > m[1] THEN FALSE
            ELSE DigitsAtMost(IF Len(d) = 0 THEN d ELSE Tail(d), Tail(m))

\* t is an unsigned StrDecimalLiteral other than Infinity, and its value is
\* not beyond the largest double.
IsFiniteDecimal(t) ==
    LET a == SkipDigits(t, 1)                      \* end of the integer part
        hasDot == a <= Len(t) /\ t[a] = "."
        f == IF hasDot THEN SkipDigits(t, a + 1) ELSE a  \* end of the fraction
        intPart == Slice(t, 1, a - 1)
        fracPart == IF hasDot THEN Slice(t, a + 1, f - 1) ELSE <<>>
        hasExp == f <= Len(t) /\ t[f] \in {"e", "E"}
        neg == hasExp /\ f + 1 <= Len(t) /\ t[f + 1] = "-"
        x == IF hasExp /\ f + 1 <= Len(t) /\ t[f + 1] \in {"+", "-"}
             THEN f + 2 ELSE f + 1                 \* the exponent's digits
        expOk == x <= Len(t) /\ SkipDigits(t, x) = Len(t) + 1
        expVal == IF hasExp /\ expOk
                  THEN (IF neg THEN -1 ELSE 1) * DigitsToNat(From(t, x))
                  ELSE 0
        all == intPart \o fracPart
        z == SkipChars(all, 1, {"0"}) - 1          \* leading zeros
        order == Len(intPart) - z - 1 + expVal
    IN /\ Len(intPart) + Len(fracPart) > 0
       /\ IF hasExp THEN expOk ELSE f = Len(t) + 1
       /\ \/ z = Len(all)                          \* the value is zero
          \/ order < MaxDoubleExponent
          \/ order = MaxDoubleExponent /\ DigitsAtMost(From(all, z + 1), MaxDoubleDigits)

HexDigits ==
    Range(Digits) \cup {"a", "b", "c", "d", "e", "f", "A", "B", "C", "D", "E", "F"}

\* t is 0x.., 0o.. or 0b.. with at least one digit of that base.
IsRadixLiteral(t) ==
    /\ Len(t) >= 3
    /\ t[1] = "0"
    /\ LET ds == CASE t[2] \in {"x", "X"} -> HexDigits
                   [] t[2] \in {"o", "O"} -> {"0", "1", "2", "3", "4", "5", "6", "7"}
                   [] t[2] \in {"b", "B"} -> {"0", "1"}
                   [] OTHER -> {}
       IN SkipChars(t, 3, ds) = Len(t) + 1

\* isFinite(s) for a string: Number(s) is neither NaN nor an infinity.
NumberIsFinite(s) ==
    LET t == TrimRight(TrimLeft(s))
        u == IF Len(t) > 0 /\ t[1] \in {"+", "-"} THEN From(t, 2) ELSE t
    IN \/ Len(t) = 0
       \/ IsRadixLiteral(t)
       \/ IsFiniteDecimal(u)

isNumeric(n) ==
    IF n.t = "number" THEN TRUE
    ELSE ParseFloatIsNumber(StringOf(n)) /\ NumberIsFinite(StringOf(n))

-----------------------------------------------------------------------------
(* Utils.prettifyString, src/unnamed/part_002                              *)

PrettyMinLength_p2 == 2

prettifyString_p2(str) ==
    IF isNumeric(str) THEN str
    ELSE IF str.t \in {"null", "undefined"}
    THEN TypeError      \* str.length of null
    ELSE IF str.t = "string" /\ Len(str.s) >= PrettyMinLength_p2
    THEN Str(UpperFirst(ConvertCase(str.s, FALSE)))
    ELSE Str(StringOf(str))

-----------------------------------------------------------------------------
(* Utils.compareStringCaseInsensitive:                                     *)
(*   a.localeCompare(b, undefined, {numeric: true, sensitivity: 'base'})   *)
(* The collation compares primary weights only: blanks and punctuation     *)
(* come first (in the order below), then numbers by value (a run of digits *)
(* is one number, leading zeros do not count), then letters without regard *)
(* to case.                                                                *)

PunctuationOrder ==
    << " ", "_", "-", ",", ";", ":", "!", "?", ".", "(", ")", "[", "]",
       "{", "}", "@", "*", "/", "&", "#", "%", "+", "<", "=", ">", "|", "~",
       "$" >>

\* The collation keys of s from position i on: <<class, weight>> pairs.
RECURSIVE CollationKeys(_, _)
CollationKeys(s, i) ==
    IF i > Len(s) THEN <<>>
    ELSE IF IsDigit(s[i])
    THEN LET j == SkipDigits(s, i)
         IN <<<<2, DigitsToNat(Slice(s, i, j - 1))>>>> \o CollationKeys(s, j)
    ELSE IF IsLower(s[i]) \/ IsUpper(s[i])
    THEN <<<<3, IndexIn(LowerLetters, LowerChar(s[i]))>>>> \o CollationKeys(s, i + 1)
    ELSE <<<<1, IndexIn(PunctuationOrder, s[i])>>>> \o CollationKeys(s, i + 1)

RECURSIVE CompareKeys(_, _)
CompareKeys(x, y) ==
    IF Len(x) = 0 /\ Len(y) = 0 THEN 0
    ELSE IF Len(x) = 0 THEN -1
    ELSE IF Len(y) = 0 THEN 1
    ELSE IF x[1][1] # y[1][1] THEN (IF x[1][1] < y[1][1] THEN -1 ELSE 1)
    ELSE IF x[1][2] # y[1][2] THEN (IF x[1][2] < y[1][2] THEN -1 ELSE 1)
    ELSE CompareKeys(Tail(x), Tail(y))

localeCompare(a, b) == CompareKeys(CollationKeys(a, 1), CollationKeys(b, 1))

compareStringCaseInsensitive(a, b) ==
    LET sa == IF a.t # "string" THEN StringOf(a) ELSE a.s
        sb == IF b.t # "string" THEN StringOf(b) ELSE b.s
    IN localeCompare(sa, sb)

-----------------------------------------------------------------------------
(* Objects in memory.  A value of type "object" is a reference: n is the   *)
(* address of the object in the heap.  An object is a link record (href,   *)
(* rel, title and one more key, type; a missing key is Undefined) or an    *)
(* array (elems).                                                          *)

Ref(a) == V("object", <<>>, a, FALSE, <<>>)

LinkObj(href, rel, title, type) ==
    [kind |-> "link", href |-> href, rel |-> rel, title |-> title,
     type |-> type, elems |-> <<>>]

ArrayObj(elems) ==
    [kind |-> "array", href |-> Undefined, rel |-> Undefined,
     title |-> Undefined, type |-> Undefined, elems |-> elems]

IsRef(h, v) == v.t = "object" /\ v.n \in DOMAIN h

\* Array.isArray(v)
IsArray(h, v) == IsRef(h, v) /\ h[v.n].kind = "array"

-----------------------------------------------------------------------------
(* Utils.friendlyLinks                                                     *)

\* Mutant: the loop works on the caller's link instead of a copy.
NoCopy(h, v) ==
    IF IsRef(h, v)
    THEN [heap |-> h, addr |-> v.n]
    ELSE [heap |-> Append(h, LinkObj(Undefined, Undefined, Undefined, Undefined)),
          addr |-> Len(h) + 1]

\* link = Object.assign({}, link): a new object with the keys of the link
\* (no keys when the element is not an object).
ObjectAssignCopy(h, v) ==
    LET src == IF IsRef(h, v) /\ h[v.n].kind = "link"
               THEN h[v.n]
               ELSE LinkObj(Undefined, Undefined, Undefined, Undefined)
    IN [heap |-> Append(h, src), addr |-> Len(h) + 1]

\* ignoreRel.includes(x)
ArrayIncludes(arr, x) == \E i \in 1..Len(arr.e) : arr.e[i] = x

\* typeof link.rel === 'string' && ignoreRel.includes(link.rel.toLowerCase())
Ignored(rel, ignoreRel) ==
    IsString(rel) /\ ArrayIncludes(ignoreRel, Str(toLowerCase(rel.s)))

HttpScheme == <<"h", "t", "t", "p", ":", "/", "/">>
HttpsScheme == <<"h", "t", "t", "p", "s", ":", "/", "/">>
Www == <<"w", "w", "w">>
WwwDot == <<"w", "w", "w", ".">>

\* The length of what /^https?:\/\/(www.)?/i matches at the start of href:
\* the scheme, then "www" and any one character after it.
SchemeMatchLength(href) ==
    LET l == toLowerCase(href)
        n == IF StartsWithAt(l, 1, HttpsScheme) THEN Len(HttpsScheme)
             ELSE IF StartsWithAt(l, 1, HttpScheme) THEN Len(HttpScheme)
             ELSE 0
    IN IF n = 0 THEN 0
       ELSE IF StartsWithAt(l, n + 1, Www) /\ n + Len(Www) + 1 <= Len(href)
       THEN n + Len(Www) + 1
       ELSE n

\* link.href.replace(/^https?:\/\/(www.)?/i, '').replace(/\/$/i, '')
TitleFromHref(href) ==
    RemoveTrailingSlash(From(href, SchemeMatchLength(href) + 1))

\* The title of the link at address a.
TitleOf(h, r) == h[r.n].title

\* Mutant: a link goes before the links whose title compares equal to its own.
InsertBeforeEqual(sorted, x, h) ==
    LET le == { j \in 1..Len(sorted) :
                  compareStringCaseInsensitive(TitleOf(h, sorted[j]), TitleOf(h, x)) < 0 }
        pos == IF le = {} THEN 0 ELSE CHOOSE j \in le : \A m \in le : m <= j
    IN Slice(sorted, 1, pos) \o <<x>> \o Slice(sorted, pos + 1, Len(sorted))

\* One step of the stable sort: x goes after the last link that does not
\* compare greater than x.
InsertSorted(sorted, x, h) ==
    LET le == { j \in 1..Len(sorted) :
                  compareStringCaseInsensitive(TitleOf(h, sorted[j]), TitleOf(h, x)) <= 0 }
        pos == IF le = {} THEN 0 ELSE CHOOSE j \in le : \A m \in le : m <= j
    IN Slice(sorted, 1, pos) \o <<x>> \o Slice(sorted, pos + 1, Len(sorted))

\* links.sort((a, b) => Utils.compareStringCaseInsensitive(a.title, b.title));
\* Array.prototype.sort is stable.
RECURSIVE SortLinks(_, _)
SortLinks(seq, h) ==
    IF Len(seq) <= 1 THEN seq
    ELSE InsertSorted(SortLinks(Front(seq), h), Last(seq), h)

\* The title a link without a title gets; p2 selects the older copy's
\* prettifyString.
DerivedTitle(link, p2) ==
    IF IsString(link.rel) /\ Len(link.rel.s) > 1
    THEN IF p2 THEN prettifyString_p2(link.rel)
               ELSE prettifyString(link.rel, DefaultArraySep)
    ELSE IF IsString(link.href)
    THEN Str(TitleFromHref(link.href.s))
    ELSE TypeError      \* link.href.replace is not a function

\* The loop over the elements of linkList, at element i; links is the
\* address of the array the retained copies are pushed to.
RECURSIVE CurateLinks(_, _, _, _, _, _)
CurateLinks(list, i, ignoreRel, h, links, p2) ==
    IF i > Len(list) THEN [err |-> FALSE, heap |-> h]
    ELSE LET c == ObjectAssignCopy(h, list[i])
             link == c.heap[c.addr]
             this == Ref(c.addr)
             pushed(hh) == [hh EXCEPT ![links].elems = Append(@, this)]
         IN IF Ignored(link.rel, ignoreRel)
            THEN CurateLinks(list, i + 1, ignoreRel, c.heap, links, p2)
            ELSE IF ~IsString(link.title) \/ Len(link.title.s) = 0
            THEN LET t == DerivedTitle(link, p2)
                 IN IF IsError(t)
                    THEN [err |-> TRUE, heap |-> c.heap]
                    ELSE CurateLinks(list, i + 1, ignoreRel,
                             pushed([c.heap EXCEPT ![c.addr].title = t]), links, p2)
            ELSE CurateLinks(list, i + 1, ignoreRel, pushed(c.heap), links, p2)

\* friendlyLinks(linkList, sort, ignoreRel) on heap h: the value returned
\* and the heap after the call.
FriendlyLinksOn(linkList, sort, ignoreRel, h, p2) ==
    LET links == Len(h) + 1
        h0 == Append(h, ArrayObj(<<>>))     \* let links = [];
    IN IF ~IsArray(h, linkList)
       THEN [ret |-> Ref(links), heap |-> h0]
       ELSE LET r == CurateLinks(h[linkList.n].elems, 1, ignoreRel, h0, links, p2)
            IN IF r.err THEN [ret |-> TypeError, heap |-> r.heap]
               ELSE [ret |-> Ref(links),
                     heap |-> IF sort
                              THEN [r.heap EXCEPT ![links].elems = SortLinks(@, r.heap)]
                              ELSE r.heap]

friendlyLinks(linkList, sort, ignoreRel, h) ==
    FriendlyLinksOn(linkList, sort, ignoreRel, h, FALSE)

friendlyLinks_p2(linkList, sort, ignoreRel, h) ==
    FriendlyLinksOn(linkList, sort, ignoreRel, h, TRUE)

-----------------------------------------------------------------------------
(* Utils.equals, Utils.unique and Utils.size                               *)

\* The keys of a link record that are present.
KeysOf(o) ==
    { k \in {"href", "rel", "title", "type"} : o[k] # Undefined }

\* equal(x, y) of fast-deep-equal: the same value or the same object, or
\* two arrays of the same length with equal elements, or two objects with
\* the same keys and equal values.
RECURSIVE equals(_, _, _)
equals(x, y, h) ==
    IF x = y THEN TRUE
    ELSE IF ~(IsRef(h, x) /\ IsRef(h, y)) THEN FALSE
    ELSE LET a == h[x.n]
             b == h[y.n]
         IN IF a.kind # b.kind THEN FALSE
            ELSE IF a.kind = "array"
            THEN /\ Len(a.elems) = Len(b.elems)
                 /\ \A i \in 1..Len(a.elems) : equals(a.elems[i], b.elems[i], h)
            ELSE /\ KeysOf(a) = KeysOf(b)
                 /\ \A k \in KeysOf(a) : equals(a[k], b[k], h)

\* arr.findIndex(s2 => Utils.equals(s1, s2)), counted from 1; 0 when none.
FindIndexEqual(arr, s1, h) ==
    LET hits == { i \in 1..Len(arr) : equals(s1, arr[i], h) }
    IN IF hits = {} THEN 0 ELSE CHOOSE i \in hits : \A j \in hits : i <= j

\* array.filter((s1, pos, arr) => arr.findIndex(...) === pos), from pos on.
RECURSIVE FilterFirstEqual(_, _, _)
FilterFirstEqual(arr, pos, h) ==
    IF pos > Len(arr) THEN <<>>
    ELSE (IF FindIndexEqual(arr, arr[pos], h) = pos THEN <<arr[pos]>> ELSE <<>>)
             \o FilterFirstEqual(arr, pos + 1, h)

\* Mutant: the values are collected as the keys of an object, so that two
\* values with the same string form count as one.
RECURSIVE SetOfKeys(_, _)
SetOfKeys(items, seen) ==
    IF Len(items) = 0 THEN seen
    ELSE SetOfKeys(Tail(items),
                   IF \E i \in 1..Len(seen) : StringOf(seen[i]) = StringOf(items[1])
                   THEN seen ELSE Append(seen, items[1]))

\* [...new Set(items)]: the items in insertion order, each value once.
RECURSIVE SetOf(_, _)
SetOf(items, seen) ==
    IF Len(items) = 0 THEN seen
    ELSE SetOf(Tail(items),
               IF items[1] \in Range(seen) THEN seen ELSE Append(seen, items[1]))

\* What iterating a string yields: its characters, as strings.
CharsOf(s) == [i \in 1..Len(s) |-> Str(<<s[i]>>)]

\* A loop that removes a duplicate with splice and then steps on, so that
\* the element after a removed one is not looked at.
RECURSIVE SpliceSkipping(_, _, _, _)
SpliceSkipping(arr, i, deep, h) ==
    IF i > Len(arr) THEN arr
    ELSE LET first == IF deep THEN FindIndexEqual(arr, arr[i], h)
                      ELSE CHOOSE j \in 1..i : arr[j] = arr[i] /\ \A m \in 1..(j - 1) : arr[m] # arr[i]
         IN IF first # i
            THEN SpliceSkipping(Slice(arr, 1, i - 1) \o Slice(arr, i + 1, Len(arr)), i + 1, deep, h)
            ELSE SpliceSkipping(arr, i + 1, deep, h)

\* Mutant: unique written as that loop.
uniqueSplice(array, useEquals, h) ==
    IF ~IsArray(h, array)
    THEN [ret |-> TypeError, heap |-> h]
    ELSE [ret |-> Ref(Len(h) + 1),
          heap |-> Append(h, ArrayObj(SpliceSkipping(h[array.n].elems, 1, useEquals, h)))]

\* unique(array, useEquals) on heap h: the value returned and the heap after
\* the call.  The result is a new array.
unique(array, useEquals, h) ==
    LET new(elems) == [ret |-> Ref(Len(h) + 1), heap |-> Append(h, ArrayObj(elems))]
        throw == [ret |-> TypeError, heap |-> h]
    IN IF useEquals
       THEN IF IsArray(h, array)
            THEN new(FilterFirstEqual(h[array.n].elems, 1, h))
            ELSE throw                      \* array.filter is not a function
       ELSE IF IsArray(h, array) THEN new(SetOf(h[array.n].elems, <<>>))
            ELSE IF array.t \in {"null", "undefined"} THEN new(<<>>)
            ELSE IF array.t = "string" THEN new(SetOf(CharsOf(array.s), <<>>))
            ELSE throw                      \* array is not iterable

size(obj, h) ==
    IF IsRef(h, obj)                        \* typeof obj === 'object' && obj !== null
    THEN IF h[obj.n].kind = "array"
         THEN Len(h[obj.n].elems)
         ELSE Cardinality(KeysOf(h[obj.n]))
    ELSE 0

-----------------------------------------------------------------------------
(* Utils.isObject and Utils.replacePlaceholders.  An object passed as a    *)
(* map of variables is a value of type "map": e holds its entries          *)
(* [k |-> key, v |-> value] in the order for..in visits them.              *)

Map(entries) == V("map", <<>>, 0, FALSE, entries)

\* typeof obj === 'object' && obj === Object(obj) && !Array.isArray(obj)
isObject(obj) == obj.t = "map"

\* The one character that cannot be written in a string here.
Backtick == "backtick"

\* The first position at which pat occurs in s from position i on; 0 if none.
IndexOfFrom(s, pat, i) ==
    LET hits == { j \in i..(Len(s) - Len(pat) + 1) : StartsWithAt(s, j, pat) }
    IN IF hits = {} THEN 0 ELSE CHOOSE j \in hits : \A m \in hits : j <= m

\* GetSubstitution for a string pattern (no capture groups): in the
\* replacement, $$ is a dollar sign, $& the matched text, $` the text before
\* the match and $' the text after it; everything else stands for itself.
RECURSIVE GetSubstitution(_, _, _, _, _)
GetSubstitution(repl, i, matched, before, after) ==
    IF i > Len(repl) THEN <<>>
    ELSE IF repl[i] = "$" /\ i < Len(repl) /\ repl[i + 1] \in {"$", "&", Backtick, "'"}
    THEN (CASE repl[i + 1] = "$" -> <<"$">>
            [] repl[i + 1] = "&" -> matched
            [] repl[i + 1] = Backtick -> before
            [] OTHER -> after)
             \o GetSubstitution(repl, i + 2, matched, before, after)
    ELSE <<repl[i]>> \o GetSubstitution(repl, i + 1, matched, before, after)

\* Mutant: every occurrence is replaced, as with replaceAll.
RECURSIVE ReplaceEvery(_, _, _)
ReplaceEvery(s, pat, repl) ==
    LET i == IndexOfFrom(s, pat, 1)
    IN IF i = 0 THEN s
       ELSE Slice(s, 1, i - 1) \o repl \o ReplaceEvery(From(s, i + Len(pat)), pat, repl)

\* s.replace(pat, repl) with a string pattern: the first occurrence only.
ReplaceFirst(s, pat, repl) ==
    LET i == IndexOfFrom(s, pat, 1)
    IN IF i = 0 THEN s
       ELSE LET before == Slice(s, 1, i - 1)
                after == From(s, i + Len(pat))
            IN before \o GetSubstitution(repl, 1, pat, before, after) \o after

\* '{' + placeholder + '}'
PlaceholderOf(key) == <<"{">> \o key \o <<"}">>

\* Array.isArray(vars) ? vars.join("; ") : vars, as the string replace()
\* makes of it.
ReplacementOf(value) ==
    IF value.t = "array"
    THEN Join([i \in 1..Len(value.e) |->
                  IF value.e[i].t \in {"null", "undefined"}
                  THEN <<>>
                  ELSE StringOf(value.e[i])],
              <<";", " ">>)
    ELSE StringOf(value)

\* The message after the first n entries of the loop.
RECURSIVE ReplaceEntries(_, _, _)
ReplaceEntries(message, entries, n) ==
    IF n = 0 THEN message
    ELSE ReplaceFirst(ReplaceEntries(message, entries, n - 1),
                      PlaceholderOf(entries[n].k),
                      ReplacementOf(entries[n].v))

replacePlaceholders(message, variables) ==
    IF IsString(message) /\ isObject(variables)
    THEN Str(ReplaceEntries(message.s, variables.e, Len(variables.e)))
    ELSE message

-----------------------------------------------------------------------------
(* The calls.                                                              *)

\* The first call of f: it returns result and leaves the heap h.
CallOn(f, result, h) ==
    /\ fn = f
    /\ calls = 0
    /\ ret' = result
    /\ prev' = ret
    /\ calls' = 1
    /\ heap' = h
    /\ UNCHANGED <<fn, args>>

\* A second call of f, made after a first one that returned normally.
AgainOn(f, result, h) ==
    /\ fn = f
    /\ calls = 1
    /\ ~IsError(ret)
    /\ ret' = result
    /\ prev' = ret
    /\ calls' = 2
    /\ heap' = h
    /\ UNCHANGED <<fn, args>>

Call(f, result) == CallOn(f, result, heap)

Again(f, result) == AgainOn(f, result, heap)

\* normalizeUrl(baseUrl, path)
NormalizeUrl == Call("normalizeUrl", normalizeUrl(args.baseUrl, args.path))

\* normalizeUrl(url) on the URL the previous call returned; path is omitted
\* and takes its default, null.
NormalizeUrlAgain == Again("normalizeUrl", normalizeUrl(ret, Null))

\* The state before the first call: the caller has built the arguments a
\* and the objects h they refer to.
StartOn(f, a, h) ==
    /\ fn = f
    /\ args = a
    /\ ret = Undefined
    /\ prev = Undefined
    /\ calls = 0
    /\ heap = h

Start(f, a) == StartOn(f, a, <<>>)

\* friendlyLinks(linkList, sort, ignoreRel) of utils.js
FriendlyLinks ==
    LET r == friendlyLinks(args.linkList, args.sort, args.ignoreRel, heap)
    IN CallOn("friendlyLinks", r.ret, r.heap)

\* friendlyLinks(linkList, sort, ignoreRel) of the older copy
FriendlyLinks_p2 ==
    LET r == friendlyLinks_p2(args.linkList, args.sort, args.ignoreRel, heap)
    IN CallOn("friendlyLinks_p2", r.ret, r.heap)

\* friendlyLinks(result, sort, ignoreRel) on the list the previous call
\* returned, with the copy of the class that made the previous call
FriendlyLinksAgain ==
    LET r == FriendlyLinksOn(ret, args.sort, args.ignoreRel, heap,
                             fn = "friendlyLinks_p2")
    IN /\ fn \in {"friendlyLinks", "friendlyLinks_p2"}
       /\ AgainOn(fn, r.ret, r.heap)

\* unique(array, useEquals)
Unique ==
    LET r == unique(args.array, args.useEquals, heap)
    IN CallOn("unique", r.ret, r.heap)

\* unique(result, useEquals) on the array the previous call returned
UniqueAgain ==
    LET r == unique(ret, args.useEquals, heap)
    IN AgainOn("unique", r.ret, r.heap)

\* unique(array, !useEquals): the same array again, in the other mode
UniqueOtherMode ==
    LET r == unique(args.array, ~args.useEquals, heap)
    IN AgainOn("unique", r.ret, r.heap)

\* size(obj)
Size == Call("size", Num(size(args.obj, heap)))

\* compareStringCaseInsensitive(a, b)
CompareStringCaseInsensitive ==
    Call("compareStringCaseInsensitive", Num(compareStringCaseInsensitive(args.a, args.b)))

\* replacePlaceholders(message, variables)
ReplacePlaceholders ==
    Call("replacePlaceholders", replacePlaceholders(args.message, args.variables))

-----------------------------------------------------------------------------
(* Specification of normalizeUrl.                                          *)

UrlChars == {"a", "/"}

NonStrings == {Null, Num(5), Bool(TRUE)}

UrlInputs == { Str(s) : s \in StringsUpTo(UrlChars, MaxUrlLen) } \cup NonStrings
PathInputs == { Str(s) : s \in StringsUpTo(UrlChars, MaxPathLen) } \cup {Null}

InitUrl ==
    \E u \in UrlInputs, p \in PathInputs :
        Start("normalizeUrl", [baseUrl |-> u, path |-> p])

NextUrl == NormalizeUrl \/ NormalizeUrlAgain

SpecUrl == InitUrl /\ [][NextUrl]_vars

\* C1 as claimed: normalizeUrl(normalizeUrl(u)) = normalizeUrl(u) for every
\* string u, also one that ends in more than one '/'.
C1_Idempotent ==
    (fn = "normalizeUrl" /\ calls = 2 /\ IsString(args.baseUrl) /\ args.path = Null)
        => ret = prev

\* C1 amended: normalizeUrl removes one trailing slash only, so for a string u
\* (path omitted) normalizeUrl(normalizeUrl(u)) = normalizeUrl(u) exactly when
\* u does not end in more than one '/'.
C1_IdempotentUnlessDoubleSlash ==
    (fn = "normalizeUrl" /\ calls = 2 /\ IsString(args.baseUrl) /\ args.path = Null)
        => (ret = prev <=> ~EndsWith(args.baseUrl.s, <<"/", "/">>))

\* A URL ending in one slash was normalized twice and the second call
\* changed nothing.
C1_Witness ==
    /\ fn = "normalizeUrl"
    /\ calls = 2
    /\ args.path = Null
    /\ IsString(args.baseUrl)
    /\ EndsWith(args.baseUrl.s, <<"a", "/">>)
    /\ ret = prev

-----------------------------------------------------------------------------
(* Specification of prettifyString, in both copies of the class.           *)

\* prettifyString(strings) of utils.js; arraySep takes its default.
PrettifyString ==
    Call("prettifyString", prettifyString(args.strings, DefaultArraySep))

\* prettifyString(str) of the older copy.
PrettifyString_p2 ==
    Call("prettifyString_p2", prettifyString_p2(args.strings))

PrettyChars == {"a", "b", "B", "_", "-", "1"}

CollectionId == <<"c", "o", "l", "l", "e", "c", "t", "i", "o", "n", "_", "i", "d">>
SpatialExtent == <<"s", "p", "a", "t", "i", "a", "l", "E", "x", "t", "e", "n", "t">>
FortyTwo == <<"4", "2">>

Tokens ==
    StringsUpTo(PrettyChars, MaxTokenLen) \cup {CollectionId, SpatialExtent, FortyTwo}

TokenArrays ==
    { Arr(<<Str(a), Str(b)>>) : a, b \in {<<"a", "_", "b">>, <<"a", "B">>, <<"1">>} }

InitPretty ==
    \/ \E s \in Tokens, f \in {"prettifyString", "prettifyString_p2"} :
          Start(f, [strings |-> Str(s)])
    \/ \E a \in TokenArrays : Start("prettifyString", [strings |-> a])

NextPretty == PrettifyString \/ PrettifyString_p2

SpecPretty == InitPretty /\ [][NextPretty]_vars

\* The separator that selects the converter, "" for the camelCase converter.
ModeOf(s) ==
    IF Includes(s, "_") THEN "_" ELSE IF Includes(s, "-") THEN "-" ELSE ""

WithoutSpaces(s) == SelectSeq(s, LAMBDA c : c # " ")

\* A token was prettified and the converter ran on it.
Prettified(f, min) ==
    /\ fn = f
    /\ calls = 1
    /\ IsString(args.strings)
    /\ IsString(ret)
    /\ Len(args.strings.s) >= min
    /\ (f = "prettifyString_p2" => ~isNumeric(args.strings))

Example(f, in, out) ==
    (fn = f /\ calls = 1 /\ args.strings = Str(in)) => ret = Str(out)

\* C3 as claimed: only the first character of the phrase changes case, so
\* "collection_id" becomes "Collection id" and "spatialExtent" becomes
\* "Spatial extent".
C3_OnlyFirstCapitalized ==
    LET s == args.strings.s
        r == ret.s
    IN /\ Prettified("prettifyString", PrettyMinLength) /\ ModeOf(s) # ""
          => /\ Len(r) = Len(s)
             /\ \A i \in 2..Len(s) : r[i] = s[i] \/ (s[i] = ModeOf(s) /\ r[i] = " ")
       /\ Example("prettifyString", CollectionId,
                  <<"C", "o", "l", "l", "e", "c", "t", "i", "o", "n", " ", "i", "d">>)
       /\ Example("prettifyString", SpatialExtent,
                  <<"S", "p", "a", "t", "i", "a", "l", " ", "e", "x", "t", "e", "n", "t">>)

\* What both copies do to a token that has no '_' and no '-': spaces are
\* inserted and the first character is upper-cased, nothing else changes.
CamelKeepsCase(f, min) ==
    (Prettified(f, min) /\ ModeOf(args.strings.s) = "")
        => /\ WithoutSpaces(ret.s) = UpperFirst(args.strings.s)
           /\ \A i \in 1..Len(ret.s) :
                ret.s[i] = " " => (i > 1 /\ i < Len(ret.s) /\ IsUpper(ret.s[i + 1]))

\* C3 amended: prettifyString upper-cases the first character of the phrase
\* and, in utils.js, also the character after every '_' or '-' it replaces by
\* a space (the older copy leaves that character as it is); the capital at a
\* camelCase boundary stays a capital.  No other character changes case:
\* "collection_id" becomes "Collection Id" ("Collection id" in the older
\* copy) and "spatialExtent" becomes "Spatial Extent" in both.
C3_CapitalizesEachWord ==
    LET s == args.strings.s
        r == ret.s
        sep == ModeOf(s)
    IN /\ Prettified("prettifyString", PrettyMinLength) /\ sep # ""
          => /\ Len(r) = Len(s)
             /\ r[1] = UpperChar(s[1])
             /\ \A i \in 2..Len(s) :
                  IF s[i - 1] = sep /\ r[i - 1] = " "
                  THEN r[i] = UpperChar(s[i])
                  ELSE r[i] = s[i] \/ (s[i] = sep /\ r[i] = " ")
       /\ Prettified("prettifyString_p2", PrettyMinLength_p2) /\ sep # ""
          => /\ Len(r) = Len(s)
             /\ r[1] = UpperChar(s[1])
             /\ \A i \in 2..Len(s) : r[i] = s[i] \/ (s[i] = sep /\ r[i] = " ")
       /\ CamelKeepsCase("prettifyString", PrettyMinLength)
       /\ CamelKeepsCase("prettifyString_p2", PrettyMinLength_p2)
       /\ Example("prettifyString", CollectionId,
                  <<"C", "o", "l", "l", "e", "c", "t", "i", "o", "n", " ", "I", "d">>)
       /\ Example("prettifyString_p2", CollectionId,
                  <<"C", "o", "l", "l", "e", "c", "t", "i", "o", "n", " ", "i", "d">>)
       /\ \A f \in {"prettifyString", "prettifyString_p2"} :
            /\ Example(f, SpatialExtent,
                  <<"S", "p", "a", "t", "i", "a", "l", " ", "E", "x", "t", "e", "n", "t">>)
            /\ Example(f, FortyTwo, FortyTwo)

\* "collection_id" was prettified by utils.js.
C3_Witness ==
    /\ fn = "prettifyString"
    /\ calls = 1
    /\ args.strings = Str(CollectionId)
    /\ ret = Str(<<"C", "o", "l", "l", "e", "c", "t", "i", "o", "n", " ", "I", "d">>)

-----------------------------------------------------------------------------
(* Specification of friendlyLinks on lists of link records.                *)

Chars(str) == [i \in 1..Len(str) |-> str[i]]

LinkHref == <<"h", "t", "t", "p", ":", "/", "/", "c", "/">>

LinkRels == {Undefined, Str(<<"s", "e", "l", "f">>), Str(<<"S", "e", "l", "f">>),
             Str(<<"a", "_", "b">>)}

LinkTitles == {Undefined, Str(<<"b">>), Str(<<"B">>), Str(<<"a", "1", "0">>),
               Str(<<"a", "2">>)}

LinkRecords ==
    { LinkObj(Str(LinkHref), r, t, Num(1)) : r \in LinkRels, t \in LinkTitles }

IgnoreRels == {Arr(<<Str(<<"s", "e", "l", "f">>)>>), Arr(<<Str(<<"S", "e", "l", "f">>)>>),
               Arr(<<>>)}

RefsTo(n) == [i \in 1..n |-> Ref(i)]

\* The caller's memory: the link records, then the array that lists them.
\* args keeps what the records and the list were before the call.
StartLinks(f, recs, sort, ignoreRel) ==
    StartOn(f,
            [linkList |-> Ref(Len(recs) + 1), sort |-> sort, ignoreRel |-> ignoreRel,
             links |-> recs, list |-> RefsTo(Len(recs))],
            Append(recs, ArrayObj(RefsTo(Len(recs)))))

InitLinks ==
    \E n \in 0..MaxLinks :
        \E recs \in [1..n -> LinkRecords], f \in {"friendlyLinks", "friendlyLinks_p2"},
           sort \in BOOLEAN, ig \in IgnoreRels :
            StartLinks(f, recs, sort, ig)

NextLinks == FriendlyLinks \/ FriendlyLinks_p2

SpecLinks == InitLinks /\ [][NextLinks]_vars

\* friendlyLinks has returned an array.
Curated ==
    /\ fn \in {"friendlyLinks", "friendlyLinks_p2"}
    /\ calls = 1
    /\ IsArray(heap, ret)

\* The links returned.
Returned == heap[ret.n].elems

NumLinks == Len(args.links)

\* The address of the copy made of the k-th input link: the input links and
\* the input list come first in memory, then the result list, then the
\* copies in input order.
CopyAddr(k) == NumLinks + 2 + k

\* rel equals an entry of ignoreRel up to letter case.
MatchesAnyCase(rel, ignoreRel) ==
    /\ IsString(rel)
    /\ \E i \in 1..Len(ignoreRel.e) :
         /\ IsString(ignoreRel.e[i])
         /\ toLowerCase(ignoreRel.e[i].s) = toLowerCase(rel.s)

\* C2 as claimed: whatever the letter case of the ignoreRel entries and of
\* rel, no returned link has a rel that equals an ignoreRel entry up to
\* letter case, and every link whose rel matches no entry is returned.
C2_DropsIgnoredAnyCase ==
    Curated =>
        /\ \A i \in 1..Len(Returned) :
             ~MatchesAnyCase(heap[Returned[i].n].rel, args.ignoreRel)
        /\ \A k \in 1..NumLinks :
             ~MatchesAnyCase(args.links[k].rel, args.ignoreRel)
                => \E i \in 1..Len(Returned) : Returned[i] = Ref(CopyAddr(k))

\* C8: friendlyLinks leaves the input list and every input link record as
\* they were, returns another list than the input list, and every returned
\* link is a copy of one input link with the same href, rel and other keys;
\* only its title may differ, and a non-empty string title is kept.
C8_InputUntouched ==
    (fn \in {"friendlyLinks", "friendlyLinks_p2"} /\ calls = 1) =>
        /\ \A k \in 1..NumLinks : heap[k] = args.links[k]
        /\ heap[args.linkList.n] = ArrayObj(args.list)
        /\ Curated =>
             /\ ret # args.linkList
             /\ \A i \in 1..Len(Returned) :
                  \E k \in 1..NumLinks :
                     LET in == args.links[k]
                         out == heap[Returned[i].n]
                     IN /\ Returned[i] = Ref(CopyAddr(k))
                        /\ [out EXCEPT !.title = in.title] = in
                        /\ (IsString(in.title) /\ Len(in.title.s) > 0)
                              => out.title = in.title

\* A link without a title was returned with a title.
C8_Witness ==
    /\ Curated
    /\ \E i \in 1..Len(Returned), k \in 1..NumLinks :
         /\ Returned[i] = Ref(CopyAddr(k))
         /\ args.links[k].title = Undefined
         /\ IsString(heap[Returned[i].n].title)
         /\ args.links[k].type = Num(1)

-----------------------------------------------------------------------------
(* Specification of friendlyLinks on longer lists, for the order of the    *)
(* result: the links have a title or none, and a rel "self" or none.       *)

SortRecords ==
    { LinkObj(Str(LinkHref), r, t, Num(1)) :
        r \in {Undefined, Str(<<"s", "e", "l", "f">>)}, t \in LinkTitles }

InitSort ==
    \E n \in 0..MaxSortLinks :
        \E recs \in [1..n -> SortRecords], sort \in BOOLEAN :
            StartLinks("friendlyLinks", recs, sort, Arr(<<Str(<<"s", "e", "l", "f">>)>>))

NextSort == FriendlyLinks

SpecSort == InitSort /\ [][NextSort]_vars

Compare(x, y) == compareStringCaseInsensitive(TitleOf(heap, x), TitleOf(heap, y))

\* C9: with sort = true the returned links are in ascending order of title
\* under compareStringCaseInsensitive, they are exactly the copies of the
\* links that were not dropped, each once, and links whose titles compare
\* equal are in input order.
C9_StableSorted ==
    (Curated /\ args.sort) =>
        /\ \A i \in 1..(Len(Returned) - 1) : Compare(Returned[i], Returned[i + 1]) <= 0
        /\ Range(Returned) =
             { Ref(CopyAddr(k)) : k \in { j \in 1..NumLinks :
                                            ~Ignored(args.links[j].rel, args.ignoreRel) } }
        /\ Cardinality(Range(Returned)) = Len(Returned)
        /\ \A i, j \in 1..Len(Returned) :
             (i < j /\ Compare(Returned[i], Returned[j]) = 0)
                => Returned[i].n < Returned[j].n

\* A sorted result in which two links with equal titles kept their order
\* and a link was moved in front of a link that came before it in the input.
C9_Witness ==
    /\ Curated
    /\ args.sort
    /\ \E i, j \in 1..Len(Returned) :
         /\ i < j
         /\ Compare(Returned[i], Returned[j]) = 0
         /\ TitleOf(heap, Returned[i]) # TitleOf(heap, Returned[j])
    /\ \E i, j \in 1..Len(Returned) : i < j /\ Returned[i].n > Returned[j].n

-----------------------------------------------------------------------------
(* Specification of friendlyLinks on one link, for the title it derives:   *)
(* the href is a scheme or none, "www." or something like it or nothing,   *)
(* and a short rest.                                                       *)

HrefSchemes ==
    {<<>>, HttpScheme, HttpsScheme, toUpperCase(HttpsScheme),
     <<"f", "t", "p", ":", "/", "/">>}

HrefPrefixes == {<<>>, WwwDot, <<"w", "w", "w", "x">>, toUpperCase(WwwDot), Www}

Hrefs ==
    { s \o w \o r : s \in HrefSchemes, w \in HrefPrefixes,
                    r \in StringsUpTo({"c", "/", "."}, MaxHostLen) }

TitleRels == {Undefined, Num(5), Str(<<>>), Str(<<"x">>), Str(<<"a", "_", "b">>),
              Str(<<"u", "p">>)}

TitleTitles == {Undefined, Num(7), Str(<<>>), Str(<<"t">>)}

InitTitle ==
    \E h \in Hrefs, r \in TitleRels, t \in TitleTitles,
       f \in {"friendlyLinks", "friendlyLinks_p2"} :
        StartLinks(f, <<LinkObj(Str(h), r, t, Num(1))>>, TRUE, Arr(<<>>))

NextTitle == FriendlyLinks \/ FriendlyLinks_p2

SpecTitle == InitTitle /\ [][NextTitle]_vars

\* The title the claim derives from href: the scheme (in any letter case),
\* then the four characters "www." if they follow it, and one slash at the
\* end are removed.
ClaimedTitleFromHref(href) ==
    LET l == toLowerCase(href)
        n == IF StartsWithAt(l, 1, HttpsScheme) THEN Len(HttpsScheme)
             ELSE IF StartsWithAt(l, 1, HttpScheme) THEN Len(HttpScheme)
             ELSE 0
        m == IF n > 0 /\ StartsWithAt(l, n + 1, WwwDot) THEN n + Len(WwwDot) ELSE n
    IN RemoveTrailingSlash(From(href, m + 1))

\* C6 as claimed: a link with a non-empty string title keeps it; otherwise
\* the title is prettifyString(rel) when rel is a string longer than one
\* character, and else href without its http:// or https:// scheme, without
\* a literal "www." after it (and nothing else, not "wwwx") and without one
\* trailing slash.
C6_TitleRule ==
    (Curated /\ NumLinks = 1 /\ Len(Returned) = 1) =>
        LET in == args.links[1]
            out == heap[Returned[1].n]
        IN IF IsString(in.title) /\ Len(in.title.s) > 0
           THEN out.title = in.title
           ELSE IF IsString(in.rel) /\ Len(in.rel.s) > 1
           THEN out.title = (IF fn = "friendlyLinks"
                             THEN prettifyString(in.rel, DefaultArraySep)
                             ELSE prettifyString_p2(in.rel))
           ELSE out.title = Str(ClaimedTitleFromHref(in.href.s))

-----------------------------------------------------------------------------
(* Specification of unique: the elements are scalars and references to     *)
(* three objects, of which the first two are distinct objects with the     *)
(* same content.                                                           *)

UniqueObjects ==
    << LinkObj(Str(<<"c">>), Undefined, Undefined, Undefined),
       LinkObj(Str(<<"c">>), Undefined, Undefined, Undefined),
       ArrayObj(<<Num(1)>>) >>

UniqueElements == {Null, Num(1), Str(<<"1">>), Ref(1), Ref(2), Ref(3)}

InitUnique ==
    \E n \in 0..MaxUniqueLen :
        \E elems \in [1..n -> UniqueElements], m \in BOOLEAN :
            StartOn("unique",
                    [array |-> Ref(Len(UniqueObjects) + 1), useEquals |-> m, elems |-> elems],
                    Append(UniqueObjects, ArrayObj(elems)))

NextUnique == Unique \/ UniqueAgain

SpecUnique == InitUnique /\ [][NextUnique]_vars

\* C10: in both equality modes unique(unique(seq, m), m) has the same
\* elements in the same order as unique(seq, m).
C10_UniqueIdempotent ==
    (fn = "unique" /\ calls = 2) =>
        /\ IsArray(heap, ret)
        /\ IsArray(heap, prev)
        /\ heap[ret.n].elems = heap[prev.n].elems

\* unique was applied twice in deep mode to a sequence that holds both of
\* the two equal objects, and the first call removed one of them.
C10_Witness ==
    /\ fn = "unique"
    /\ calls = 2
    /\ args.useEquals
    /\ {Ref(1), Ref(2)} \subseteq Range(args.elems)
    /\ IsArray(heap, prev)
    /\ Ref(2) \notin Range(heap[prev.n].elems)
    /\ heap[ret.n].elems = heap[prev.n].elems


\* The equality a mode of unique goes by: the deep equals, or being the same
\* scalar or the same object.
SameUnder(x, y, deep, h) == IF deep THEN equals(x, y, h) ELSE x = y

\* The positions of elems whose element has no equal element before it.
FirstPositions(elems, deep, h) ==
    { i \in 1..Len(elems) :
        \A j \in 1..(i - 1) : ~SameUnder(elems[j], elems[i], deep, h) }

\* The elements of elems at the positions ps, from position i on, in order.
RECURSIVE ElementsAt(_, _, _)
ElementsAt(elems, ps, i) ==
    IF i > Len(elems) THEN <<>>
    ELSE (IF i \in ps THEN <<elems[i]>> ELSE <<>>) \o ElementsAt(elems, ps, i + 1)

\* C11: unique(seq, m) is the subsequence of seq made of the elements with
\* no equal element at an earlier position, under the equality of mode m;
\* no two of its elements are equal, every element of seq is equal to one of
\* them, and without deep equals two distinct objects of the same content
\* are both kept.
C11_FirstOccurrences ==
    (fn = "unique" /\ calls = 1) =>
        /\ IsArray(heap, ret)
        /\ LET out == heap[ret.n].elems
               m == args.useEquals
           IN /\ out = ElementsAt(args.elems, FirstPositions(args.elems, m, heap), 1)
              /\ \A i, j \in 1..Len(out) :
                    i # j => ~SameUnder(out[i], out[j], m, heap)
              /\ \A i \in 1..Len(args.elems) :
                    \E j \in 1..Len(out) : SameUnder(args.elems[i], out[j], m, heap)
              /\ ~m => ({Ref(1), Ref(2)} \cap Range(args.elems)) \subseteq Range(out)

\* unique with deep equals was applied to a sequence that holds the second
\* of the two equal objects, a number and then the first object, and it
\* returned the second object and the number.
C11_Witness ==
    /\ fn = "unique"
    /\ calls = 1
    /\ args.useEquals
    /\ args.elems = <<Ref(2), Num(1), Ref(1)>>
    /\ IsArray(heap, ret)
    /\ heap[ret.n].elems = <<Ref(2), Num(1)>>
-----------------------------------------------------------------------------
(* Specification of size, friendlyLinks and unique on arguments of any     *)
(* shape: scalars, and for comparison a link record and an array.          *)

Scalars ==
    {Null, Undefined, Bool(TRUE), Bool(FALSE)}
        \cup { Num(n) : n \in 0..MaxNum }
        \cup { Str(s) : s \in StringsUpTo({"a", "b"}, MaxScalarLen) }

IsScalar(v) == v.t \in {"null", "undefined", "boolean", "number", "string"}

ShapeObjects ==
    << LinkObj(Str(LinkHref), Undefined, Str(<<"b">>), Undefined),
       ArrayObj(<<Ref(1), Ref(1)>>) >>

AnyShape == Scalars \cup {Ref(1), Ref(2)}

InitShape ==
    \E v \in AnyShape, b \in BOOLEAN :
        \/ StartOn("size", [obj |-> v], ShapeObjects)
        \/ StartOn("unique", [array |-> v, useEquals |-> b], ShapeObjects)
        \/ StartOn("friendlyLinks",
                   [linkList |-> v, sort |-> b, ignoreRel |-> Arr(<<Str(<<"s", "e", "l", "f">>)>>)],
                   ShapeObjects)

NextShape == Size \/ Unique \/ FriendlyLinks

SpecShape == InitShape /\ [][NextShape]_vars

\* The value returned is a reference to an array with these elements.
ReturnsArray(elems) == IsArray(heap, ret) /\ heap[ret.n].elems = elems

\* C4 as claimed: for every input that is neither an array nor an object,
\* size returns 0, friendlyLinks returns an empty sequence and unique, in
\* both equality modes, returns an empty sequence; none raises an error.
C4_SafeDefaults ==
    /\ (fn = "size" /\ calls = 1 /\ IsScalar(args.obj)) => ret = Num(0)
    /\ (fn = "friendlyLinks" /\ calls = 1 /\ IsScalar(args.linkList)) => ReturnsArray(<<>>)
    /\ (fn = "unique" /\ calls = 1 /\ IsScalar(args.array)) => ReturnsArray(<<>>)

\* C4 amended: for every input that is neither an array nor an object, size
\* returns 0 and friendlyLinks returns an empty sequence, without an error.
\* unique returns an empty sequence only for null (or undefined) with
\* useEquals false; with useEquals false a string yields its distinct
\* characters in order of first occurrence; in every other case (a number
\* or a boolean, and every such input with useEquals true) unique raises a
\* TypeError.
C4_SafeDefaultsButUnique ==
    /\ (fn = "size" /\ calls = 1 /\ IsScalar(args.obj)) => ret = Num(0)
    /\ (fn = "friendlyLinks" /\ calls = 1 /\ IsScalar(args.linkList)) => ReturnsArray(<<>>)
    /\ (fn = "unique" /\ calls = 1 /\ IsScalar(args.array)) =>
          IF ~args.useEquals /\ args.array.t \in {"null", "undefined"}
          THEN ReturnsArray(<<>>)
          ELSE IF ~args.useEquals /\ args.array.t = "string"
          THEN LET s == args.array.s
                   firsts == { i \in 1..Len(s) : \A j \in 1..(i - 1) : s[j] # s[i] }
               IN /\ IsArray(heap, ret)
                  /\ Len(heap[ret.n].elems) = Cardinality(firsts)
                  /\ \A k \in 1..Len(heap[ret.n].elems) :
                       \E i \in firsts :
                          /\ heap[ret.n].elems[k] = Str(<<s[i]>>)
                          /\ Cardinality({ j \in firsts : j <= i }) = k
          ELSE ret = TypeError

\* unique was called with the string "aa" and useEquals false, and returned
\* the one character.
C4_Witness ==
    /\ fn = "unique"
    /\ calls = 1
    /\ args.array = Str(<<"a", "a">>)
    /\ ~args.useEquals
    /\ ReturnsArray(<<Str(<<"a">>)>>)

-----------------------------------------------------------------------------
(* Specification of normalizeUrl, prettifyString (both copies) and         *)
(* compareStringCaseInsensitive on scalar arguments of any type.           *)

InitCoerce ==
    \E v \in Scalars, w \in Scalars :
        \/ /\ w \in {Null, Num(5), Str(<<"a", "/">>)}
           /\ Start("normalizeUrl", [baseUrl |-> v, path |-> w])
        \/ \E f \in {"prettifyString", "prettifyString_p2"} : Start(f, [strings |-> v])
        \/ Start("compareStringCaseInsensitive", [a |-> v, b |-> w])

NextCoerce ==
    NormalizeUrl \/ PrettifyString \/ PrettifyString_p2 \/ CompareStringCaseInsensitive

SpecCoerce == InitCoerce /\ [][NextCoerce]_vars

AsString(v) == Str(StringOf(v))

\* C5 as claimed: called with a non-string argument, normalizeUrl,
\* prettifyString and compareStringCaseInsensitive return what they return
\* for the argument's string form, and raise no error.
C5_CoercesToString ==
    /\ (fn = "normalizeUrl" /\ calls = 1) =>
          ret = normalizeUrl(AsString(args.baseUrl), args.path)
    /\ (fn = "prettifyString" /\ calls = 1) =>
          ret = prettifyString(AsString(args.strings), DefaultArraySep)
    /\ (fn = "prettifyString_p2" /\ calls = 1) =>
          ret = prettifyString_p2(AsString(args.strings))
    /\ (fn = "compareStringCaseInsensitive" /\ calls = 1) =>
          ret = Num(compareStringCaseInsensitive(AsString(args.a), AsString(args.b)))

\* C5 amended: compareStringCaseInsensitive and the prettifyString of
\* utils.js return, for a non-string argument, what they return for its
\* string form.  normalizeUrl does not: it raises a TypeError when baseUrl is
\* not a string, and it ignores a path that is not a string.  The older
\* prettifyString returns a number as it is, raises a TypeError for null and
\* undefined, and returns the string form of a boolean without capitalizing
\* it.
C5_CoercesExceptNormalizeUrl ==
    /\ (fn = "normalizeUrl" /\ calls = 1) =>
          /\ ~IsString(args.baseUrl) => ret = TypeError
          /\ (IsString(args.baseUrl) /\ ~IsString(args.path)) =>
                ret = normalizeUrl(args.baseUrl, Null)
    /\ (fn = "prettifyString" /\ calls = 1) =>
          ret = prettifyString(AsString(args.strings), DefaultArraySep)
    /\ (fn = "compareStringCaseInsensitive" /\ calls = 1) =>
          ret = Num(compareStringCaseInsensitive(AsString(args.a), AsString(args.b)))
    /\ (fn = "prettifyString_p2" /\ calls = 1) =>
          CASE args.strings.t = "number" -> ret = args.strings
            [] args.strings.t \in {"null", "undefined"} -> ret = TypeError
            [] args.strings.t = "boolean" -> ret = AsString(args.strings)
            [] OTHER -> TRUE

\* prettifyString of utils.js was called with true and returned "True".
C5_Witness ==
    /\ fn = "prettifyString"
    /\ calls = 1
    /\ args.strings = Bool(TRUE)
    /\ ret = Str(<<"T", "r", "u", "e">>)

-----------------------------------------------------------------------------
(* Specification of replacePlaceholders: the message is made of a few      *)
(* parts, the variables map has the keys a and b, in either order.         *)

MessageParts == {<<"{", "a", "}">>, <<"{", "b", "}">>, <<"x">>, <<"{">>}

RECURSIVE Concat(_)
Concat(parts) == IF Len(parts) = 0 THEN <<>> ELSE parts[1] \o Concat(Tail(parts))

Messages == { Concat(p) : p \in StringsUpTo(MessageParts, MaxMessageParts) }

PlaceholderKeys == {<<"a">>, <<"b">>}

PlaceholderValues ==
    {Str(<<"y">>), Str(<<"{", "b", "}">>), Str(<<"$", "&">>), Str(<<"$", "$">>),
     Str(<<"$", "'">>), Str(<<"$", Backtick>>), Num(5),
     Arr(<<Str(<<"y">>), Str(<<"z">>)>>)}

VariableMaps ==
    { Map(<<>>) }
        \cup { Map(<<[k |-> k1, v |-> v1]>>) : k1 \in PlaceholderKeys, v1 \in PlaceholderValues }
        \cup UNION { { Map(<<[k |-> k1, v |-> v1], [k |-> k2, v |-> v2]>>) :
                         k2 \in PlaceholderKeys \ {k1},
                         v1 \in PlaceholderValues, v2 \in PlaceholderValues } :
                     k1 \in PlaceholderKeys }

InitPlaceholders ==
    \/ \E m \in Messages, vs \in VariableMaps :
          Start("replacePlaceholders", [message |-> Str(m), variables |-> vs])
    \/ \E m \in {Null, Num(5), Str(<<"{", "a", "}">>)},
          vs \in {Null, Num(5), Str(<<"a">>), Arr(<<Str(<<"y">>)>>),
                  Map(<<[k |-> <<"a">>, v |-> Str(<<"y">>)]>>)} :
          Start("replacePlaceholders", [message |-> m, variables |-> vs])

NextPlaceholders == ReplacePlaceholders

SpecPlaceholders == InitPlaceholders /\ [][NextPlaceholders]_vars

\* The positions at which pat occurs in s.
Occurrences(s, pat) == { i \in 1..Len(s) : StartsWithAt(s, i, pat) }

\* The string a value stands for when it is written into the message: a
\* string itself, the elements of a sequence joined with "; ".
RECURSIVE JoinedWith(_, _)
JoinedWith(elems, sep) ==
    IF Len(elems) = 0 THEN <<>>
    ELSE IF Len(elems) = 1 THEN elems[1].s
    ELSE JoinedWith(Front(elems), sep) \o sep \o Last(elems).s

\* One entry of the map took message m to message m2 by replacing at most
\* the first occurrence of {key}: an absent key changes nothing; otherwise
\* the text before the first occurrence and all the text after it, with
\* every later occurrence, are as they were, and a string or sequence of
\* strings free of '$' is written in between as it is.
FirstOnly(m, key, value, m2) ==
    LET pat == <<"{">> \o key \o <<"}">>
        occ == Occurrences(m, pat)
    IN IF occ = {} THEN m2 = m
       ELSE LET f == CHOOSE i \in occ : \A j \in occ : i <= j
                before == Slice(m, 1, f - 1)
                after == Slice(m, f + Len(pat), Len(m))
            IN /\ Len(m2) >= Len(before) + Len(after)
               /\ Slice(m2, 1, Len(before)) = before
               /\ EndsWith(m2, after)
               /\ \A i \in occ \ {f} :
                    StartsWithAt(m2, Len(m2) - Len(m) + i, pat)
               /\ (value.t = "string" /\ ~Includes(value.s, "$"))
                     => m2 = before \o value.s \o after
               /\ value.t = "array"
                     => m2 = before \o JoinedWith(value.e, <<";", " ">>) \o after

\* C7: for each key of vars, in order, replacePlaceholders replaces only the
\* first occurrence of {key} in the message as it then is; later occurrences
\* stay, absent keys change nothing, and a message that is no string or
\* vars that are no object give the message back unchanged.
C7_FirstOccurrenceOnly ==
    (fn = "replacePlaceholders" /\ calls = 1) =>
        IF ~IsString(args.message) \/ args.variables.t # "map"
        THEN ret = args.message
        ELSE LET es == args.variables.e
                 at(n) == ReplaceEntries(args.message.s, es, n)
             IN /\ IsString(ret)
                /\ ret.s = at(Len(es))
                /\ \A n \in 1..Len(es) : FirstOnly(at(n - 1), es[n].k, es[n].v, at(n))
                /\ \A n \in 1..Len(es) :
                     LET pat == <<"{">> \o es[n].k \o <<"}">>
                     IN Cardinality(Occurrences(ret.s, pat))
                           >= Cardinality(Occurrences(args.message.s, pat)) - 1

\* A message with {a} twice, and a map that replaces {a}: the second {a} is
\* in the result.
C7_Witness ==
    /\ fn = "replacePlaceholders"
    /\ calls = 1
    /\ args.message = Str(<<"{", "a", "}", "x", "{", "a", "}">>)
    /\ args.variables = Map(<<[k |-> <<"a">>, v |-> Str(<<"y">>)]>>)
    /\ ret = Str(<<"y", "x", "{", "a", "}">>)

-----------------------------------------------------------------------------
(* Specification of prettifyString on tokens written with the characters   *)
(* of numbers: digits, a sign, a point, an exponent and a hexadecimal      *)
(* prefix and digits.                                                      *)

NumericChars == {"0", "1", "x", "e", "a", "B", "-", "."}

NumericTokens == StringsUpTo(NumericChars, MaxTokenLen)

InitNumeric ==
    \E s \in NumericTokens, f \in {"prettifyString", "prettifyString_p2"} :
        Start(f, [strings |-> Str(s)])

NextNumeric == PrettifyString \/ PrettifyString_p2

SpecNumeric == InitNumeric /\ [][NextNumeric]_vars

\* C12: prettifyString returns a token for which isNumeric is true as it is.
C12_NumericUnchanged ==
    (fn \in {"prettifyString", "prettifyString_p2"} /\ calls = 1
        /\ isNumeric(args.strings)) =>
        ret = args.strings

-----------------------------------------------------------------------------
(* Specification of prettifyString on snake_case and kebab-case tokens     *)
(* long enough to hold two separators with one character between them.     *)

SnakeChars == {"a", "B", "1", "_", "-"}

SnakeTokens == StringsUpTo(SnakeChars, MaxSnakeLen)

InitSnake ==
    \E s \in SnakeTokens, f \in {"prettifyString", "prettifyString_p2"} :
        Start(f, [strings |-> Str(s)])

NextSnake == PrettifyString \/ PrettifyString_p2

SpecSnake == InitSnake /\ [][NextSnake]_vars

\* The positions of s that hold sep between two letters or digits.
SeparatorsOf(s, sep) ==
    { i \in 2..(Len(s) - 1) : s[i] = sep /\ IsAlnum(s[i - 1]) /\ IsAlnum(s[i + 1]) }

\* C13: in the result for a token that contains '_', no '_' that stood
\* between two letters or digits is left, and the same for '-' in a token
\* without '_'; a converter writes one character for each one it reads, so
\* a separator of the token is found at its place in the result.
C13_EverySeparatorReplaced ==
    (fn \in {"prettifyString", "prettifyString_p2"} /\ calls = 1
        /\ ~isNumeric(args.strings)
        /\ (Includes(args.strings.s, "_") \/ Includes(args.strings.s, "-"))) =>
        LET s == args.strings.s
            sep == IF Includes(s, "_") THEN "_" ELSE "-"
        IN /\ IsString(ret)
           /\ Len(ret.s) = Len(s)
           /\ \A i \in SeparatorsOf(s, sep) : ret.s[i] # sep

-----------------------------------------------------------------------------
(* Specification of friendlyLinks applied to its own result: the links     *)
(* have a title, an empty one or none, a rel or none, and one of them has  *)
(* an href that leaves an empty title.                                     *)

BareHref == <<"h", "t", "t", "p", ":", "/", "/">>

TwiceTitles == {Undefined, Str(<<>>), Str(<<"b">>), Str(<<"B">>)}

\* The rel and the href of a link: only a link without rel has the bare href.
TwiceRelHrefs ==
    { <<Undefined, LinkHref>>, <<Str(<<"s", "e", "l", "f">>), LinkHref>>,
      <<Str(<<"a", "_", "b">>), LinkHref>>, <<Undefined, BareHref>> }

TwiceRecords ==
    { LinkObj(Str(rh[2]), rh[1], t, Num(1)) : rh \in TwiceRelHrefs, t \in TwiceTitles }

TwiceIgnoreRels == {Arr(<<Str(<<"s", "e", "l", "f">>)>>), Arr(<<>>)}

InitTwice ==
    \E n \in 0..MaxLinks :
        \E recs \in [1..n -> TwiceRecords], f \in {"friendlyLinks", "friendlyLinks_p2"},
           sort \in BOOLEAN, ig \in TwiceIgnoreRels :
            StartLinks(f, recs, sort, ig)

NextTwice == FriendlyLinks \/ FriendlyLinks_p2 \/ FriendlyLinksAgain

SpecTwice == InitTwice /\ [][NextTwice]_vars

\* The link records a returned list refers to, in order.
RecordsOf(h, list) == [i \in 1..Len(h[list.n].elems) |-> h[h[list.n].elems[i].n]]

\* C14: friendlyLinks applied, with the same sort flag and ignoreRel, to the
\* list it returned gives a list of the same links with the same titles in
\* the same order.
C14_FriendlyLinksIdempotent ==
    (fn \in {"friendlyLinks", "friendlyLinks_p2"} /\ calls = 2) =>
        /\ IsArray(heap, ret)
        /\ IsArray(heap, prev)
        /\ RecordsOf(heap, ret) = RecordsOf(heap, prev)

\* friendlyLinks was applied twice with sort = true to a link titled "b"
\* followed by a link without title and with rel "a_b": the first call gave
\* the second link the title "A B" and moved it to the front, and the
\* second call returned the same two links.
C14_Witness ==
    /\ fn = "friendlyLinks"
    /\ calls = 2
    /\ args.sort
    /\ args.links = << LinkObj(Str(LinkHref), Undefined, Str(<<"b">>), Num(1)),
                       LinkObj(Str(LinkHref), Str(<<"a", "_", "b">>), Undefined, Num(1)) >>
    /\ IsArray(heap, ret)
    /\ RecordsOf(heap, prev) =
         << LinkObj(Str(LinkHref), Str(<<"a", "_", "b">>), Str(<<"A", " ", "B">>), Num(1)),
            LinkObj(Str(LinkHref), Undefined, Str(<<"b">>), Num(1)) >>
    /\ RecordsOf(heap, ret) = RecordsOf(heap, prev)

-----------------------------------------------------------------------------
(* Specification of unique in its two modes on one sequence of scalars,    *)
(* among them values of different types with the same string form.         *)

ModeScalars ==
    {Null, Bool(TRUE), Bool(FALSE), Num(0), Num(1), Str(<<>>), Str(<<"0">>), Str(<<"1">>)}

InitModes ==
    \E n \in 0..MaxUniqueLen :
        \E elems \in [1..n -> ModeScalars], m \in BOOLEAN :
            StartOn("unique",
                    [array |-> Ref(1), useEquals |-> m, elems |-> elems],
                    <<ArrayObj(elems)>>)

NextModes == Unique \/ UniqueOtherMode

SpecModes == InitModes /\ [][NextModes]_vars

\* C15: on a sequence of scalars unique returns the same elements in the
\* same order with and without deep equals.
C15_ModesAgreeOnScalars ==
    (fn = "unique" /\ calls = 2) =>
        /\ IsArray(heap, ret)
        /\ IsArray(heap, prev)
        /\ heap[ret.n].elems = heap[prev.n].elems

\* unique was applied in both modes to the number 1, the string "1" and the
\* number 1 again, and both calls returned the number and the string.
C15_Witness ==
    /\ fn = "unique"
    /\ calls = 2
    /\ args.elems = <<Num(1), Str(<<"1">>), Num(1)>>
    /\ IsArray(heap, ret)
    /\ IsArray(heap, prev)
    /\ heap[prev.n].elems = <<Num(1), Str(<<"1">>)>>
    /\ heap[ret.n].elems = <<Num(1), Str(<<"1">>)>>

=============================================================================
